---- MODULE Spec2Model ----
(***************************************************************************)
(* Two workflows built on a directed-graph executor:                       *)
(*   - the retrieval workflow of medium.py (Router, three retrievals,      *)
(*     Relevance_Checker with an iteration cap, Augment, Generate);        *)
(*   - the support-triage workflow of realtime_support_graph.py.           *)
(* The State Record is a Python dict: a function whose DOMAIN is the set   *)
(* of keys present.  Strings that the code inspects (the support message)  *)
(* are sequences of characters; f-strings are tuples of their pieces.      *)
(***************************************************************************)
EXTENDS Integers, Sequences, FiniteSets, TLC

VARIABLES
    wf,     \* which workflow the invocation runs: "rag" or "support"
    pc,     \* the node about to execute, "END", or "FAILED"
    state,  \* the State Record of the invocation
    trace,  \* the nodes executed so far, in order
    heard,  \* what get_llm_response returned so far, in order
    runs,   \* several invocations of one compiled workflow, side by side
    memo    \* the answers the external collaborators gave, by call

vars == <<wf, pc, state, trace, heard, runs, memo>>

\* ------------------------------------------------------------------ bounds
\* Longest node-visit sequence the model follows (no run of the code is
\* longer than 9 node executions).
MaxSteps == 12
\* Longest composed support message, in words.
MaxWords == 2

\* ------------------------------------------------------- Python strings
\* The characters of each word and keyword the model uses.
Chars(w) ==
  CASE
      w = "urgent" -> <<"u", "r", "g", "e", "n", "t">>
    [] w = "asap" -> <<"a", "s", "a", "p">>
    [] w = "immediately" -> <<"i", "m", "m", "e", "d", "i", "a", "t", "e", "l", "y">>
    [] w = "emergency" -> <<"e", "m", "e", "r", "g", "e", "n", "c", "y">>
    [] w = "critical" -> <<"c", "r", "i", "t", "i", "c", "a", "l">>
    [] w = "not working" -> <<"n", "o", "t", " ", "w", "o", "r", "k", "i", "n", "g">>
    [] w = "angry" -> <<"a", "n", "g", "r", "y">>
    [] w = "frustrated" -> <<"f", "r", "u", "s", "t", "r", "a", "t", "e", "d">>
    [] w = "disappointed" -> <<"d", "i", "s", "a", "p", "p", "o", "i", "n", "t", "e", "d">>
    [] w = "terrible" -> <<"t", "e", "r", "r", "i", "b", "l", "e">>
    [] w = "worst" -> <<"w", "o", "r", "s", "t">>
    [] w = "thank" -> <<"t", "h", "a", "n", "k">>
    [] w = "great" -> <<"g", "r", "e", "a", "t">>
    [] w = "love" -> <<"l", "o", "v", "e">>
    [] w = "awesome" -> <<"a", "w", "e", "s", "o", "m", "e">>
    [] w = "bill" -> <<"b", "i", "l", "l">>
    [] w = "charge" -> <<"c", "h", "a", "r", "g", "e">>
    [] w = "payment" -> <<"p", "a", "y", "m", "e", "n", "t">>
    [] w = "refund" -> <<"r", "e", "f", "u", "n", "d">>
    [] w = "invoice" -> <<"i", "n", "v", "o", "i", "c", "e">>
    [] w = "bug" -> <<"b", "u", "g">>
    [] w = "error" -> <<"e", "r", "r", "o", "r">>
    [] w = "crash" -> <<"c", "r", "a", "s", "h">>
    [] w = "broken" -> <<"b", "r", "o", "k", "e", "n">>
    [] w = "login" -> <<"l", "o", "g", "i", "n">>
    [] w = "password" -> <<"p", "a", "s", "s", "w", "o", "r", "d">>
    [] w = "access" -> <<"a", "c", "c", "e", "s", "s">>
    [] w = "account" -> <<"a", "c", "c", "o", "u", "n", "t">>
    [] w = "reset" -> <<"r", "e", "s", "e", "t">>
    [] w = "URGENT:" -> <<"U", "R", "G", "E", "N", "T", ":">>
    [] w = "Cannot" -> <<"C", "a", "n", "n", "o", "t">>
    [] w = "my" -> <<"m", "y">>
    [] w = "account," -> <<"a", "c", "c", "o", "u", "n", "t", ",">>
    [] w = "need" -> <<"n", "e", "e", "d">>
    [] w = "help" -> <<"h", "e", "l", "p">>
    [] w = "immediately!" -> <<"i", "m", "m", "e", "d", "i", "a", "t", "e", "l", "y", "!">>
    [] w = "How" -> <<"H", "o", "w">>
    [] w = "do" -> <<"d", "o">>
    [] w = "I" -> <<"I">>
    [] w = "password?" -> <<"p", "a", "s", "s", "w", "o", "r", "d", "?">>
    [] w = "I'm" -> <<"I", "'", "m">>
    [] w = "very" -> <<"v", "e", "r", "y">>
    [] w = "with" -> <<"w", "i", "t", "h">>
    [] w = "the" -> <<"t", "h", "e">>
    [] w = "billing" -> <<"b", "i", "l", "l", "i", "n", "g">>
    [] w = "charges," -> <<"c", "h", "a", "r", "g", "e", "s", ",">>
    [] w = "this" -> <<"t", "h", "i", "s">>
    [] w = "is" -> <<"i", "s">>
    [] w = "terrible!" -> <<"t", "e", "r", "r", "i", "b", "l", "e", "!">>
    [] w = "Frustrated" -> <<"F", "r", "u", "s", "t", "r", "a", "t", "e", "d">>
    [] w = "Thanks" -> <<"T", "h", "a", "n", "k", "s">>
    [] w = "Refund" -> <<"R", "e", "f", "u", "n", "d">>
    [] w = "not" -> <<"n", "o", "t">>
    [] w = "working" -> <<"w", "o", "r", "k", "i", "n", "g">>
    [] w = "hello" -> <<"h", "e", "l", "l", "o">>
    [] w = " " -> <<" ">>

\* str.lower() on one character.
LowerChar(c) ==
    CASE c = "A" -> "a"
    [] c = "B" -> "b"
    [] c = "C" -> "c"
    [] c = "D" -> "d"
    [] c = "E" -> "e"
    [] c = "F" -> "f"
    [] c = "G" -> "g"
    [] c = "H" -> "h"
    [] c = "I" -> "i"
    [] c = "J" -> "j"
    [] c = "K" -> "k"
    [] c = "L" -> "l"
    [] c = "M" -> "m"
    [] c = "N" -> "n"
    [] c = "O" -> "o"
    [] c = "P" -> "p"
    [] c = "Q" -> "q"
    [] c = "R" -> "r"
    [] c = "S" -> "s"
    [] c = "T" -> "t"
    [] c = "U" -> "u"
    [] c = "V" -> "v"
    [] c = "W" -> "w"
    [] c = "X" -> "x"
    [] c = "Y" -> "y"
    [] c = "Z" -> "z"
    [] OTHER -> c

\* str.lower() (v is the string, evaluated once)
Lower(s) ==
    CHOOSE r \in {[i \in 1..Len(v) |-> LowerChar(v[i])] : v \in {s}} : TRUE

\* " ".join(words)
RECURSIVE Join(_)
Join(ws) ==
    IF ws = <<>> THEN <<>>
    ELSE IF Len(ws) = 1 THEN Chars(ws[1])
    ELSE Chars(ws[1]) \o Chars(" ") \o Join(Tail(ws))

\* Python's `k in s` on strings.
IsSubstring(k, s) ==
    \E i \in 1..(Len(s) - Len(k) + 1) : SubSeq(s, i, i + Len(k) - 1) = k

\* any(word in msg for word in keywords)
AnyIn(keywords, msg) ==
    \E m \in {msg} : \E k \in keywords : IsSubstring(Chars(k), m)

\* ------------------------------------------------------- the State Record
\* state.get(key, default)
Get(s, key, default) == IF key \in DOMAIN s THEN s[key] ELSE default

\* state[key] = value on a dict (adds the key when absent)
Put(s, key, value) ==
    [k \in DOMAIN s \cup {key} |-> IF k = key THEN value ELSE s[k]]

\* Whether every key a function reads with state[key] is present
\* (otherwise the read raises KeyError).
Has(s, keys) == keys \subseteq DOMAIN s

\* The executor merges a node's returned update into the state: update
\* fields win, unspecified fields persist.
Merge(s, update) ==
    [k \in DOMAIN s \cup DOMAIN update |->
        IF k \in DOMAIN update THEN update[k] ELSE s[k]]

\* resolveNext for a conditional edge: the mapped successor of a label, or
\* the failure of the invocation when the label is unmapped.
ResolveNext(labelToNode, label) ==
    IF label \in DOMAIN labelToNode THEN labelToNode[label] ELSE "FAILED"

Last(s) == s[Len(s)]
Range(s) == {s[i] : i \in 1..Len(s)}
Count(s, x) == Cardinality({i \in 1..Len(s) : s[i] = x})

\* A single invocation: no other invocation runs beside it.
Alone == heard = <<>> /\ runs = <<>> /\ memo = <<>>

\* One node execution of the executor: the node ran, the state became
\* newState and the next node was resolved.
Walk(node, newState, next) ==
    /\ pc' = next
    /\ state' = newState
    /\ trace' = Append(trace, node)
    /\ UNCHANGED <<wf, runs, memo>>

\* A node execution that made no call of get_llm_response.
Step(node, newState, next) ==
    /\ Walk(node, newState, next)
    /\ heard' = heard

\* A node execution in which get_llm_response returned answer.
StepHeard(node, newState, next, answer) ==
    /\ Walk(node, newState, next)
    /\ heard' = Append(heard, answer)

\* A read of a missing key raises KeyError: the invocation fails.
Raise(node) == Step(node, state, "FAILED")

\* The State Record the executor carries on with after a routing function
\* ran: the record it handed to the function, with the writes the function
\* made to it in place.
AfterRouting(decision) == decision.state

\* =============================================== retrieval workflow
\* Ceiling of the iteration counter.
MaxIterations == 3

Queries == {"What are flu symptoms?", "How do I clean the inhaler?"}

\* What the external decision function may answer: the expected labels and
\* one unexpected label.
RouterAnswers == {"Retrieve_QnA", "Retrieve_Device", "Web_Search", "Unsure"}
RelevanceAnswers == {"Yes", "No", "Maybe"}
\* What the lookups, the search and the generating call may return.
QnADocuments == {"qna documents"}
DeviceDocuments == {"device manual documents"}
SearchResults == {"search results A", "search results B"}
LlmAnswers == {"answer A", "answer B"}

route_decision(s) == s["source"]

\* The routing function of Relevance_Checker: the state it leaves behind and
\* the label it returns.
\* Fault variant of relevance_decision: the forced "Yes" at the ceiling is missing.
relevance_decision_uncapped(s) ==
    LET iteration_count == Get(s, "iteration_count", 0) + 1
        s1 == Put(s, "iteration_count", iteration_count)
    IN  [state |-> s1, label |-> s1["is_relevant"]]

\* Calls of relevance_decision made so far by all invocations of the process.
RelevanceCallsSoFar ==
    Count(trace, "Relevance_Checker")
        + Cardinality({p \in (DOMAIN runs) \X (1..(MaxSteps + 1)) :
                          /\ p[2] <= Len(runs[p[1]].trace)
                          /\ runs[p[1]].trace[p[2]] = "Relevance_Checker"})

\* Fault variant of relevance_decision: the counter is a module-level
\* variable, shared by all invocations, instead of a field of the state.
relevance_decision_shared_counter(s) ==
    LET iteration_count == RelevanceCallsSoFar + 1
        s1 == Put(s, "iteration_count", iteration_count)
        s2 == IF iteration_count >= MaxIterations
              THEN Put(s1, "is_relevant", "Yes")
              ELSE s1
    IN  [state |-> s2, label |-> s2["is_relevant"]]

\* Fault variant of relevance_decision: the counter is kept in a local only.
relevance_decision_local_counter(s) ==
    LET iteration_count == Get(s, "iteration_count", 0) + 1
        s2 == IF iteration_count >= MaxIterations
              THEN Put(s, "is_relevant", "Yes")
              ELSE s
    IN  [state |-> s2, label |-> s2["is_relevant"]]

\* Fault variant of relevance_decision: the ceiling is tested with > for >=.
relevance_decision_late_cap(s) ==
    LET iteration_count == Get(s, "iteration_count", 0) + 1
        s1 == Put(s, "iteration_count", iteration_count)
        s2 == IF iteration_count > MaxIterations
              THEN Put(s1, "is_relevant", "Yes")
              ELSE s1
    IN  [state |-> s2, label |-> s2["is_relevant"]]

relevance_decision(s) ==
    LET iteration_count == Get(s, "iteration_count", 0) + 1
        s1 == Put(s, "iteration_count", iteration_count)
        s2 == IF iteration_count >= MaxIterations
              THEN Put(s1, "is_relevant", "Yes")
              ELSE s1
    IN  [state |-> s2, label |-> s2["is_relevant"]]

router(s, router_decision) == Put(s, "source", router_decision)

\* Fault variant of retrieve_context_q_n_a: the context is not stored.
retrieve_context_q_n_a_source_only(s, context) ==
    Put(s, "source", "Medical Q&A Collection")

retrieve_context_q_n_a(s, context) ==
    Put(Put(s, "context", context), "source", "Medical Q&A Collection")

retrieve_context_medical_device(s, context) ==
    Put(Put(s, "context", context), "source", "Medical Device Manual")

web_search(s, search_results) ==
    Put(Put(s, "context", search_results), "source", "Web Search")

build_prompt(s) ==
    Put(s, "prompt",
        <<"Answer the following question using the context below. Context:",
          s["context"], "Question:", s["query"],
          "please limit your answer in 50 words.">>)

call_llm(s, answer) == Put(s, "response", answer)

\* Fault variant of check_context_relevance: an answer other than "Yes" is
\* stored as "No".
check_context_relevance_coercing(s, relevance_decision_value) ==
    Put(s, "is_relevant", IF relevance_decision_value = "Yes" THEN "Yes" ELSE "No")

check_context_relevance(s, relevance_decision_value) ==
    Put(s, "is_relevant", relevance_decision_value)

RouterEdges ==
    [l \in {"Retrieve_QnA", "Retrieve_Device", "Web_Search"} |-> l]

RelevanceEdges ==
    [l \in {"Yes", "No"} |-> IF l = "Yes" THEN "Augment" ELSE "Web_Search"]

RagRuns(node) == wf = "rag" /\ pc = node /\ Len(trace) < MaxSteps

Router ==
    /\ RagRuns("Router")
    /\ IF ~Has(state, {"query"}) THEN Raise("Router")
       ELSE \E d \in RouterAnswers :
              LET s1 == Merge(state, router(state, d))
              IN  StepHeard("Router", s1,
                            ResolveNext(RouterEdges, route_decision(s1)), d)

Retrieve_QnA ==
    /\ RagRuns("Retrieve_QnA")
    /\ IF ~Has(state, {"query"}) THEN Raise("Retrieve_QnA")
       ELSE \E c \in QnADocuments :
              Step("Retrieve_QnA", Merge(state, retrieve_context_q_n_a(state, c)),
                   "Relevance_Checker")

Retrieve_Device ==
    /\ RagRuns("Retrieve_Device")
    /\ IF ~Has(state, {"query"}) THEN Raise("Retrieve_Device")
       ELSE \E c \in DeviceDocuments :
              Step("Retrieve_Device",
                   Merge(state, retrieve_context_medical_device(state, c)),
                   "Relevance_Checker")

Web_Search ==
    /\ RagRuns("Web_Search")
    /\ IF ~Has(state, {"query"}) THEN Raise("Web_Search")
       ELSE \E r \in SearchResults :
              Step("Web_Search", Merge(state, web_search(state, r)),
                   "Relevance_Checker")

Relevance_Checker ==
    /\ RagRuns("Relevance_Checker")
    /\ IF ~Has(state, {"query", "context"}) THEN Raise("Relevance_Checker")
       ELSE \E v \in RelevanceAnswers :
              LET s1 == Merge(state, check_context_relevance(state, v))
                  decision == relevance_decision(s1)
              IN  StepHeard("Relevance_Checker", AfterRouting(decision),
                            ResolveNext(RelevanceEdges, decision.label), v)

Augment ==
    /\ RagRuns("Augment")
    /\ IF ~Has(state, {"query", "context"}) THEN Raise("Augment")
       ELSE Step("Augment", Merge(state, build_prompt(state)), "Generate")

Generate ==
    /\ RagRuns("Generate")
    /\ IF ~Has(state, {"prompt"}) THEN Raise("Generate")
       ELSE \E a \in LlmAnswers :
              StepHeard("Generate", Merge(state, call_llm(state, a)), "END", a)

RagInit ==
    /\ wf = "rag"
    /\ pc = "Router"
    /\ trace = <<>>
    /\ state \in {[k \in {"query"} |-> q] : q \in Queries}
    /\ Alone

\* =============================================== support-triage workflow
Sentiments == {"positive", "neutral", "negative", "urgent"}
Categories == {"billing", "technical", "account", "product"}
Priorities == {"low", "medium", "high", "critical"}

urgent_keywords ==
    {"urgent", "asap", "immediately", "emergency", "critical", "not working"}
negative_keywords == {"angry", "frustrated", "disappointed", "terrible", "worst"}
positive_keywords == {"thank", "great", "love", "awesome"}
billing_keywords == {"bill", "charge", "payment", "refund", "invoice"}
technical_keywords == {"bug", "error", "crash", "not working", "broken"}
account_keywords == {"login", "password", "access", "account", "reset"}

\* The three messages of test_cases, as their words.
TestMessage1 ==
    <<"URGENT:", "Cannot", "access", "my", "account,", "need", "help",
      "immediately!">>
TestMessage2 == <<"How", "do", "I", "reset", "my", "password?">>
TestMessage3 ==
    <<"I'm", "very", "frustrated", "with", "the", "billing", "charges,",
      "this", "is", "terrible!">>

\* Words of the other messages a user may submit.
Vocabulary ==
    {"URGENT:", "Frustrated", "Thanks", "Refund", "crash", "password", "not",
     "working", "hello"}

Messages ==
    {TestMessage1, TestMessage2, TestMessage3}
        \cup UNION {[1..n -> Vocabulary] : n \in 1..MaxWords}

UserIds == {"U123", "U456"}

\* What datetime.now().strftime('%Y%m%d%H%M%S') may return.
Timestamps == {"20261103101500", "20261103101501"}

\* Fault variant of Msg: the message is matched without .lower().
Msg_without_lower(s) == Join(s["message"])

\* state["message"].lower()
Msg(s) == Lower(Join(s["message"]))

analyze_sentiment(s) ==
    LET msg == Msg(s)
        sentiment ==
            IF AnyIn(urgent_keywords, msg) THEN "urgent"
            ELSE IF AnyIn(negative_keywords, msg) THEN "negative"
            ELSE IF AnyIn(positive_keywords, msg) THEN "positive"
            ELSE "neutral"
    IN  "sentiment" :> sentiment

categorize_issue(s) ==
    LET msg == Msg(s)
        category ==
            IF AnyIn(billing_keywords, msg) THEN "billing"
            ELSE IF AnyIn(technical_keywords, msg) THEN "technical"
            ELSE IF AnyIn(account_keywords, msg) THEN "account"
            ELSE "product"
    IN  "category" :> category

\* Fault variant of assign_priority: the high rule is tested before the critical rule.
assign_priority_high_first(s) ==
    LET sentiment == s["sentiment"]
        category == s["category"]
        priority ==
            IF sentiment = "negative" \/ category = "technical" THEN "high"
            ELSE IF sentiment = "urgent"
                    \/ (category = "billing" /\ sentiment = "negative")
            THEN "critical"
            ELSE IF category \in {"technical", "account"} /\ sentiment = "neutral"
            THEN "medium"
            ELSE "low"
    IN  "priority" :> priority

\* Fault variant of assign_priority: the medium rule is missing.
assign_priority_no_medium(s) ==
    LET sentiment == s["sentiment"]
        category == s["category"]
        priority ==
            IF sentiment = "urgent"
               \/ (category = "billing" /\ sentiment = "negative")
            THEN "critical"
            ELSE IF sentiment = "negative" \/ category = "technical" THEN "high"
            ELSE "low"
    IN  "priority" :> priority

assign_priority(s) ==
    LET sentiment == s["sentiment"]
        category == s["category"]
        priority ==
            IF sentiment = "urgent"
               \/ (category = "billing" /\ sentiment = "negative")
            THEN "critical"
            ELSE IF sentiment = "negative" \/ category = "technical" THEN "high"
            ELSE IF category \in {"technical", "account"} /\ sentiment = "neutral"
            THEN "medium"
            ELSE "low"
    IN  "priority" :> priority

\* Fault variant of check_knowledge_base: requires_human is a module-level
\* flag that, once set by any invocation, stays set.
check_knowledge_base_shared_flag(s) ==
    LET category == s["category"]
        priority == s["priority"]
        flagged == \E i \in DOMAIN runs :
                      Get(runs[i].state, "requires_human", FALSE)
        can_auto_resolve ==
            /\ priority \in {"low", "medium"}
            /\ category \in {"account", "product"}
            /\ ~flagged
    IN  IF can_auto_resolve
        THEN ("response" :> <<"Auto-resolved ", category,
                              " issue from knowledge base">>)
             @@ ("requires_human" :> FALSE)
        ELSE "requires_human" :> TRUE

\* Fault variant of check_knowledge_base: the category test is missing.
check_knowledge_base_any_category(s) ==
    LET category == s["category"]
        priority == s["priority"]
        can_auto_resolve == priority \in {"low", "medium"}
    IN  IF can_auto_resolve
        THEN ("response" :> <<"Auto-resolved ", category,
                              " issue from knowledge base">>)
             @@ ("requires_human" :> FALSE)
        ELSE "requires_human" :> TRUE

\* Fault variant of check_knowledge_base: only low priority is eligible.
check_knowledge_base_low_only(s) ==
    LET category == s["category"]
        priority == s["priority"]
        can_auto_resolve ==
            priority \in {"low"} /\ category \in {"account", "product"}
    IN  IF can_auto_resolve
        THEN ("response" :> <<"Auto-resolved ", category,
                              " issue from knowledge base">>)
             @@ ("requires_human" :> FALSE)
        ELSE "requires_human" :> TRUE

check_knowledge_base(s) ==
    LET category == s["category"]
        priority == s["priority"]
        can_auto_resolve ==
            priority \in {"low", "medium"} /\ category \in {"account", "product"}
    IN  IF can_auto_resolve
        THEN ("response" :> <<"Auto-resolved ", category,
                              " issue from knowledge base">>)
             @@ ("requires_human" :> FALSE)
        ELSE "requires_human" :> TRUE

\* Fault variant of generate_ai_response: an earlier escalate=True is kept.
generate_ai_response_keep_escalate(s) ==
    ("response" :> <<"AI-generated response for ", s["category"],
                     " issue (Priority: ", s["priority"], ")">>)
    @@ ("escalate" :> (Get(s, "escalate", FALSE) \/ s["priority"] = "critical"))

\* Fault variant of generate_ai_response: the response is also appended to
\* the conversation history.
generate_ai_response_logs_context(s) ==
    ("response" :> <<"AI-generated response for ", s["category"],
                     " issue (Priority: ", s["priority"], ")">>)
    @@ ("escalate" :> (s["priority"] = "critical"))
    @@ ("context" :> Append(s["context"], "AI-generated response"))

generate_ai_response(s) ==
    ("response" :> <<"AI-generated response for ", s["category"],
                     " issue (Priority: ", s["priority"], ")">>)
    @@ ("escalate" :> (s["priority"] = "critical"))

\* Fault variant of escalate_to_human: the escalate flag is not set.
escalate_to_human_no_flag(s, now) ==
    LET ticket_id == <<"TKT-", now>>
    IN  ("response" :> (<<"Escalated to human agent - Ticket: ">> \o ticket_id))
        @@ ("ticket_id" :> ticket_id)

escalate_to_human(s, now) ==
    LET ticket_id == <<"TKT-", now>>
    IN  ("response" :> (<<"Escalated to human agent - Ticket: ">> \o ticket_id))
        @@ ("ticket_id" :> ticket_id)
        @@ ("escalate" :> TRUE)

send_automated_response(s) ==
    ("response" :> <<"Automated response for ", s["category"], " query">>)
    @@ ("escalate" :> FALSE)

\* Fault variant of should_auto_resolve: only critical is escalated.
should_auto_resolve_high_to_ai(s) ==
    IF ~Get(s, "requires_human", FALSE) THEN "automated"
    ELSE IF s["priority"] \in {"critical"} THEN "escalate"
    ELSE "ai_response"

should_auto_resolve(s) ==
    IF ~Get(s, "requires_human", FALSE) THEN "automated"
    ELSE IF s["priority"] \in {"critical", "high"} THEN "escalate"
    ELSE "ai_response"

\* Fault variant of should_escalate: the label of the END edge is misspelt.
should_escalate_label_END(s) ==
    IF Get(s, "escalate", FALSE) THEN "escalate" ELSE "END"

should_escalate(s) ==
    IF Get(s, "escalate", FALSE) THEN "escalate" ELSE "end"

CheckKbEdges ==
    [l \in {"automated", "ai_response", "escalate"} |-> l]

AiResponseEdges ==
    [l \in {"escalate", "end"} |-> IF l = "end" THEN "END" ELSE "escalate"]

SupportRuns(node) == wf = "support" /\ pc = node /\ Len(trace) < MaxSteps

AnalyzeSentiment ==
    /\ SupportRuns("analyze_sentiment")
    /\ IF ~Has(state, {"message"}) THEN Raise("analyze_sentiment")
       ELSE Step("analyze_sentiment", Merge(state, analyze_sentiment(state)),
                 "categorize")

Categorize ==
    /\ SupportRuns("categorize")
    /\ IF ~Has(state, {"message"}) THEN Raise("categorize")
       ELSE Step("categorize", Merge(state, categorize_issue(state)),
                 "assign_priority")

AssignPriority ==
    /\ SupportRuns("assign_priority")
    /\ IF ~Has(state, {"sentiment", "category"}) THEN Raise("assign_priority")
       ELSE Step("assign_priority", Merge(state, assign_priority(state)),
                 "check_kb")

CheckKb ==
    /\ SupportRuns("check_kb")
    /\ IF ~Has(state, {"category", "priority"}) THEN Raise("check_kb")
       ELSE LET s1 == Merge(state, check_knowledge_base(state))
            IN  Step("check_kb", s1,
                     ResolveNext(CheckKbEdges, should_auto_resolve(s1)))

AiResponse ==
    /\ SupportRuns("ai_response")
    /\ IF ~Has(state, {"category", "priority"}) THEN Raise("ai_response")
       ELSE LET s1 == Merge(state, generate_ai_response(state))
            IN  Step("ai_response", s1,
                     ResolveNext(AiResponseEdges, should_escalate(s1)))

Escalate ==
    /\ SupportRuns("escalate")
    /\ \E now \in Timestamps :
         Step("escalate", Merge(state, escalate_to_human(state, now)), "END")

Automated ==
    /\ SupportRuns("automated")
    /\ IF ~Has(state, {"category"}) THEN Raise("automated")
       ELSE Step("automated", Merge(state, send_automated_response(state)), "END")

\* app.invoke(test) and app.invoke(state) of the form: the caller supplies
\* user_id, message and context only.
SupportInit ==
    /\ wf = "support"
    /\ pc = "analyze_sentiment"
    /\ trace = <<>>
    /\ state \in {("user_id" :> u) @@ ("message" :> m) @@ ("context" :> <<>>) :
                    u \in UserIds, m \in Messages}
    /\ Alone

\* =============================================== specifications
Init == RagInit \/ SupportInit

RagNext ==
    \/ Router
    \/ Retrieve_QnA
    \/ Retrieve_Device
    \/ Web_Search
    \/ Relevance_Checker
    \/ Augment
    \/ Generate

SupportNext ==
    \/ AnalyzeSentiment
    \/ Categorize
    \/ AssignPriority
    \/ CheckKb
    \/ AiResponse
    \/ Escalate
    \/ Automated

Next == RagNext \/ SupportNext

Spec == Init /\ [][Next]_vars

\* A node function or routing function applied on its own to any State
\* Record that holds the fields it reads: the node is the entry of the walk.
NodeInit ==
    \/ Init
    \/ /\ wf = "support"
       /\ pc \in {"assign_priority", "check_kb", "ai_response"}
       /\ trace = <<>>
       /\ Alone
       /\ \E sentiment \in Sentiments, category \in Categories,
             priority \in Priorities, requires_human \in BOOLEAN,
             escalate \in SUBSET {"escalate"}, response \in SUBSET {"response"},
             e \in BOOLEAN :
            state = [k \in escalate |-> e]
                    @@ [k \in response |-> <<"an earlier response">>]
                    @@ ("user_id" :> "U123") @@ ("message" :> TestMessage2)
                    @@ ("context" :> <<>>) @@ ("sentiment" :> sentiment)
                    @@ ("category" :> category) @@ ("priority" :> priority)
                    @@ ("requires_human" :> requires_human)

NodeSpec == NodeInit /\ [][Next]_vars

\* An invocation runs on one thread to completion and its external calls
\* return: a node that can run does run.
FairSpec == Spec /\ WF_vars(Next)

\* =============================================== properties
Retrievals ==
    Count(trace, "Retrieve_QnA") + Count(trace, "Retrieve_Device")
        + Count(trace, "Web_Search")

Ran(node) == node \in Range(trace)

\* C1: in one invocation of the retrieval workflow the Relevance_Checker
\* decision point is visited at most 3 times, whatever the verdicts; at the
\* third visit the label is forced to "Yes" and the run has left the
\* Web_Search -> Relevance_Checker cycle.
C1_RelevanceCheckAtMostThree ==
    wf = "rag" =>
        /\ Count(trace, "Relevance_Checker") <= 3
        /\ Count(trace, "Relevance_Checker") = 3 =>
              /\ state["is_relevant"] = "Yes"
              /\ pc \in {"Augment", "Generate", "END"}

C1_Witness ==
    /\ wf = "rag"
    /\ pc = "Augment"
    /\ Count(trace, "Relevance_Checker") = 3
    /\ Count(trace, "Web_Search") >= 2

\* C2: every invocation of the retrieval workflow whose decision function
\* answers only mapped labels (so the invocation does not fail) eventually
\* reaches END having run Router once, at most 3 retrievals, at most 3
\* relevance checks, Augment once and Generate once, Generate last.
C2_ReachesEnd ==
    <>(wf = "rag" =>
          \/ pc = "FAILED"
          \/ /\ pc = "END"
             /\ Last(trace) = "Generate"
             /\ Count(trace, "Router") = 1
             /\ Retrievals \in 1..3
             /\ Count(trace, "Relevance_Checker") \in 1..3
             /\ Count(trace, "Augment") = 1
             /\ Count(trace, "Generate") = 1)

C2_Witness ==
    /\ wf = "rag"
    /\ pc = "END"
    /\ Retrievals = 3
    /\ Count(trace, "Relevance_Checker") = 3
    /\ "response" \in DOMAIN state

\* The ordered rule table the priority is claimed to follow: the first rule
\* that matches decides.
ClaimedPriority(sentiment, category) ==
    CASE sentiment = "urgent" -> "critical"
      [] sentiment = "negative" /\ category = "billing" -> "critical"
      [] sentiment = "negative" /\ category # "billing" -> "high"
      [] sentiment \in {"neutral", "positive"} /\ category = "technical" -> "high"
      [] sentiment = "neutral" /\ category = "account" -> "medium"
      [] OTHER -> "low"

\* C3: for every (sentiment, category) pair, assign_priority returns the
\* result of the first matching rule: critical for urgent or
\* (billing, negative); else high for negative or technical; else medium for
\* neutral with technical or account; else low.
C3_PriorityTable ==
    (wf = "support" /\ Ran("assign_priority") /\ "priority" \in DOMAIN state) =>
        state["priority"] = ClaimedPriority(state["sentiment"], state["category"])

C3_Witness ==
    /\ wf = "support"
    /\ Ran("assign_priority")
    /\ state["sentiment"] = "negative"
    /\ state["category"] = "billing"
    /\ state["priority"] = "critical"

\* C4: whenever category is technical and sentiment is neutral when
\* assign_priority runs, the priority it assigns is medium.
C4_TechnicalNeutralIsMedium ==
    (wf = "support" /\ Ran("assign_priority") /\ "priority" \in DOMAIN state
        /\ state["category"] = "technical" /\ state["sentiment"] = "neutral") =>
        state["priority"] = "medium"

\* C5 (as claimed): whenever category is account or product and sentiment is
\* neutral or positive when assign_priority runs, the priority is low.
C5_AccountProductCalmIsLow ==
    (wf = "support" /\ Ran("assign_priority") /\ "priority" \in DOMAIN state
        /\ state["category"] \in {"account", "product"}
        /\ state["sentiment"] \in {"neutral", "positive"}) =>
        state["priority"] = "low"

\* C5 (amended): whenever category is account or product and sentiment is
\* neutral or positive when assign_priority runs, the priority is low, except
\* for account with neutral sentiment, where it is medium.
C5_AccountNeutralIsMedium ==
    (wf = "support" /\ Ran("assign_priority") /\ "priority" \in DOMAIN state
        /\ state["category"] \in {"account", "product"}
        /\ state["sentiment"] \in {"neutral", "positive"}) =>
        IF state["category"] = "account" /\ state["sentiment"] = "neutral"
        THEN state["priority"] = "medium"
        ELSE state["priority"] = "low"

C5_Witness ==
    /\ wf = "support"
    /\ Ran("assign_priority")
    /\ state["category"] = "account"
    /\ state["sentiment"] = "neutral"
    /\ state["priority"] = "medium"

\* C6: after check_knowledge_base runs, for every priority and category,
\* requires_human is false if and only if priority is low or medium and
\* category is account or product; in every other combination
\* requires_human is true and response is left as it was.
C6_KnowledgeBaseEligibility ==
    [][(wf = "support" /\ pc = "check_kb" /\ trace' # trace /\ pc' # "FAILED") =>
        LET eligible == /\ state["priority"] \in {"low", "medium"}
                        /\ state["category"] \in {"account", "product"}
        IN  /\ state'["requires_human"] = ~eligible
            /\ ~eligible =>
                 /\ ("response" \in DOMAIN state') = ("response" \in DOMAIN state)
                 /\ "response" \in DOMAIN state =>
                        state'["response"] = state["response"]]_vars

C6_Witness ==
    /\ wf = "support"
    /\ trace = <<"check_kb">>
    /\ state["priority"] = "medium"
    /\ state["category"] = "product"
    /\ state["requires_human"] = FALSE

\* C7: the node executed immediately after check_kb is escalate iff
\* requires_human is true and priority is critical or high, automated iff
\* requires_human is false, and ai_response in every remaining case; exactly
\* one of the three is chosen.
C7_AfterCheckKb ==
    wf = "support" =>
        \A i \in 1..Len(trace) :
            trace[i] = "check_kb" =>
                LET next == IF i < Len(trace) THEN trace[i + 1] ELSE pc
                    requires_human == state["requires_human"]
                    priority == state["priority"]
                IN  /\ next \in {"escalate", "automated", "ai_response"}
                    /\ next = "escalate" <=>
                          (requires_human /\ priority \in {"critical", "high"})
                    /\ next = "automated" <=> ~requires_human
                    /\ next = "ai_response" <=>
                          (requires_human /\ priority \in {"low", "medium"})

C7_Witness ==
    /\ wf = "support"
    /\ Len(trace) >= 5
    /\ trace[4] = "check_kb"
    /\ trace[5] = "ai_response"
    /\ state["requires_human"]

\* C8: whenever the ai_response node executes it sets escalate to true iff
\* priority is critical, whatever escalate was before; the run continues to
\* escalate exactly when escalate is true and otherwise ends.
C8_AiResponseEscalation ==
    [][(wf = "support" /\ pc = "ai_response" /\ trace' # trace /\ pc' # "FAILED") =>
        /\ state'["escalate"] = (state["priority"] = "critical")
        /\ pc' = IF state'["escalate"] THEN "escalate" ELSE "END"]_vars

C8_Witness ==
    /\ wf = "support"
    /\ trace = <<"ai_response">>
    /\ state["priority"] = "critical"
    /\ state["escalate"]
    /\ pc = "escalate"

UrgentAccountMessage(s) ==
    /\ AnyIn(urgent_keywords, Lower(Join(s["message"])))
    /\ AnyIn(account_keywords, Lower(Join(s["message"])))
    /\ ~AnyIn(billing_keywords, Lower(Join(s["message"])))
    /\ ~AnyIn(technical_keywords, Lower(Join(s["message"])))

\* C9: a request whose message holds an urgent keyword and an account
\* keyword but no billing or technical keyword ends with sentiment urgent,
\* category account, priority critical, requires_human true, escalate as its
\* resolution node, and a response that contains the ticket identifier
\* stored in ticket_id.
C9_UrgentAccountEscalates ==
    (wf = "support" /\ pc = "END" /\ UrgentAccountMessage(state)) =>
        /\ state["sentiment"] = "urgent"
        /\ state["category"] = "account"
        /\ state["priority"] = "critical"
        /\ state["requires_human"] = TRUE
        /\ trace = <<"analyze_sentiment", "categorize", "assign_priority",
                     "check_kb", "escalate">>
        /\ "ticket_id" \in DOMAIN state
        /\ IsSubstring(state["ticket_id"], state["response"])

C9_Witness ==
    /\ wf = "support"
    /\ pc = "END"
    /\ state["message"] = TestMessage1
    /\ state["priority"] = "critical"
    /\ Last(trace) = "escalate"
    /\ IsSubstring(state["ticket_id"], state["response"])

CalmAccountMessage(s) ==
    /\ AnyIn(account_keywords, Lower(Join(s["message"])))
    /\ ~AnyIn(billing_keywords, Lower(Join(s["message"])))
    /\ ~AnyIn(technical_keywords, Lower(Join(s["message"])))
    /\ ~AnyIn(urgent_keywords, Lower(Join(s["message"])))
    /\ ~AnyIn(negative_keywords, Lower(Join(s["message"])))
    /\ ~AnyIn(positive_keywords, Lower(Join(s["message"])))

AutomatedRun(s, priority) ==
    /\ s["sentiment"] = "neutral"
    /\ s["category"] = "account"
    /\ s["priority"] = priority
    /\ s["requires_human"] = FALSE
    /\ s["escalate"] = FALSE
    /\ "ticket_id" \notin DOMAIN s
    /\ trace = <<"analyze_sentiment", "categorize", "assign_priority",
                 "check_kb", "automated">>

\* C10 (as claimed): a request whose message holds an account keyword and no
\* billing, technical, urgent, negative or positive keyword ends with
\* sentiment neutral, category account, priority low, requires_human false,
\* and automated as its resolution node.
C10_CalmAccountIsLow ==
    (wf = "support" /\ pc = "END" /\ CalmAccountMessage(state)) =>
        AutomatedRun(state, "low")

\* C10 (amended): such a request ends with sentiment neutral, category
\* account, priority medium, requires_human false, and automated as its
\* resolution node.
C10_CalmAccountIsMedium ==
    (wf = "support" /\ pc = "END" /\ CalmAccountMessage(state)) =>
        AutomatedRun(state, "medium")

C10_Witness ==
    /\ wf = "support"
    /\ pc = "END"
    /\ state["message"] = TestMessage2
    /\ state["priority"] = "medium"
    /\ Last(trace) = "automated"

\* The visits of Relevance_Checker whose verdict was an answer outside
\* {"Yes", "No"}: the k-th verdict is the (k+1)-th answer heard, after the
\* Router's.
UnexpectedVerdictVisits ==
    {k \in 1..Count(trace, "Relevance_Checker") : heard[k + 1] \notin {"Yes", "No"}}

UnexpectedRouterAnswer ==
    heard # <<>> /\ heard[1] \notin {"Retrieve_QnA", "Retrieve_Device", "Web_Search"}

\* The invocation failed at the node that heard the unexpected answer:
\* nothing ran after it and no final state is returned.
FailedAtLastAnswer ==
    /\ pc = "FAILED"
    /\ Last(trace) \in {"Router", "Relevance_Checker"}
    /\ Len(heard) = 1 + Count(trace, "Relevance_Checker")
    /\ ~Ran("Augment")
    /\ ~Ran("Generate")

\* C12 (as claimed): an answer of the decision function outside the expected
\* labels is never coerced: if Router's answer is unexpected, or the verdict
\* at any visit of Relevance_Checker (first, second or third) is neither Yes
\* nor No, the invocation fails, executes no further node and returns no
\* final state.
C12_UnexpectedLabelFails ==
    (wf = "rag" /\ (UnexpectedRouterAnswer \/ UnexpectedVerdictVisits # {})) =>
        FailedAtLastAnswer

\* C12 (amended): the invocation fails so when Router's answer is unexpected
\* or the verdict at the first or second visit of Relevance_Checker is
\* neither Yes nor No; at the third visit the verdict, whatever it is, is
\* replaced by Yes and the run goes on to Augment.
C12_UnexpectedLabelFailsBelowCap ==
    wf = "rag" =>
        /\ (UnexpectedRouterAnswer \/ UnexpectedVerdictVisits \cap {1, 2} # {}) =>
              FailedAtLastAnswer
        /\ 3 \in UnexpectedVerdictVisits =>
              /\ state["is_relevant"] = "Yes"
              /\ pc \in {"Augment", "Generate", "END"}

C12_Witness ==
    /\ wf = "rag"
    /\ pc = "FAILED"
    /\ UnexpectedVerdictVisits = {2}
    /\ trace = <<"Router", "Retrieve_Device", "Relevance_Checker", "Web_Search",
                 "Relevance_Checker">>

\* The fields of the update a node returns (for the nodes of medium.py,
\* which return the whole record, the fields they assign; Relevance_Checker
\* with its routing function's writes).
Written(node, after) ==
    CASE node = "analyze_sentiment" -> {"sentiment"}
      [] node = "categorize" -> {"category"}
      [] node = "assign_priority" -> {"priority"}
      [] node = "check_kb" ->
            IF after["requires_human"] THEN {"requires_human"}
            ELSE {"response", "requires_human"}
      [] node = "ai_response" -> {"response", "escalate"}
      [] node = "escalate" -> {"response", "ticket_id", "escalate"}
      [] node = "automated" -> {"response", "escalate"}
      [] node = "Router" -> {"source"}
      [] node \in {"Retrieve_QnA", "Retrieve_Device", "Web_Search"} ->
            {"context", "source"}
      [] node = "Relevance_Checker" -> {"is_relevant", "iteration_count"}
      [] node = "Augment" -> {"prompt"}
      [] node = "Generate" -> {"response"}

\* C13: each node execution changes only the fields of the update it
\* returns and leaves every other field as it was; so user_id, message and
\* context of the support-triage workflow and query of the retrieval
\* workflow never change.
C13_Frame ==
    [][(trace' # trace /\ pc' # "FAILED") =>
        /\ DOMAIN state \subseteq DOMAIN state'
        /\ DOMAIN state' \ DOMAIN state \subseteq Written(pc, state')
        /\ \A k \in DOMAIN state \ Written(pc, state') : state'[k] = state[k]
        /\ Written(pc, state')
              \cap (IF wf = "support" THEN {"user_id", "message", "context"}
                    ELSE {"query"}) = {}]_vars

C13_Witness ==
    /\ wf = "support"
    /\ pc = "END"
    /\ trace = <<"analyze_sentiment", "categorize", "assign_priority",
                 "check_kb", "ai_response">>
    /\ state["user_id"] = "U456"
    /\ state["message"] = <<"Refund">>
    /\ state["context"] = <<>>

\* C15: the iteration counter starts every invocation at 0, grows by exactly
\* 1 at each call of relevance_decision and is changed by nothing else: after
\* the k-th visit of Relevance_Checker it is k, and the value one visit wrote
\* is the value the next visit reads.
C15_CounterCountsVisits ==
    wf = "rag" =>
        /\ Get(state, "iteration_count", 0) = Count(trace, "Relevance_Checker")
        /\ ("iteration_count" \in DOMAIN state) = Ran("Relevance_Checker")

C15_Witness ==
    /\ wf = "rag"
    /\ pc = "Relevance_Checker"
    /\ Count(trace, "Relevance_Checker") = 2
    /\ state["iteration_count"] = 2

\* C16: at the Relevance_Checker decision point, a counter of 3 or more
\* after its increment gives the label Yes, is_relevant = Yes and Augment as
\* the next node whatever the verdict was; below 3 the label is the verdict,
\* Yes leading to Augment and No to Web_Search whichever retrieval produced
\* the context; so Retrieve_QnA and Retrieve_Device each run at most once.
C16_RelevanceRouting ==
    /\ [][(wf = "rag" /\ pc = "Relevance_Checker" /\ trace' # trace
            /\ "iteration_count" \in DOMAIN state') =>
            IF state'["iteration_count"] >= 3
            THEN state'["is_relevant"] = "Yes" /\ pc' = "Augment"
            ELSE /\ state'["is_relevant"] = Last(heard')
                 /\ Last(heard') = "Yes" => pc' = "Augment"
                 /\ Last(heard') = "No" => pc' = "Web_Search"]_vars
    /\ [](wf = "rag" =>
            /\ Count(trace, "Retrieve_QnA") <= 1
            /\ Count(trace, "Retrieve_Device") <= 1)

C16_Witness ==
    /\ wf = "rag"
    /\ trace = <<"Router", "Retrieve_QnA", "Relevance_Checker", "Web_Search",
                 "Relevance_Checker", "Web_Search", "Relevance_Checker">>
    /\ Last(heard) = "No"
    /\ state["is_relevant"] = "Yes"
    /\ pc = "Augment"

Linear == <<"analyze_sentiment", "categorize", "assign_priority", "check_kb">>

FourPaths ==
    {Linear \o <<"automated">>, Linear \o <<"escalate">>,
     Linear \o <<"ai_response">>, Linear \o <<"ai_response", "escalate">>}

\* The walk so far follows path p and stands before p's next node, or at END
\* when p is finished.
Follows(p) ==
    /\ Len(trace) <= Len(p)
    /\ SubSeq(p, 1, Len(trace)) = trace
    /\ pc = IF Len(trace) < Len(p) THEN p[Len(trace) + 1] ELSE "END"

\* C17: every invocation of the support-triage workflow runs
\* analyze_sentiment, categorize, assign_priority and check_kb once each, in
\* that order, before automated, ai_response or escalate, runs no node twice,
\* and reaches END after at most 6 node executions along one of four paths.
C17_SupportPaths ==
    /\ [](wf = "support" => \E p \in FourPaths : Follows(p))
    /\ <>(wf = "support" => (pc = "END" /\ trace \in FourPaths /\ Len(trace) <= 6))

C17_Witness ==
    /\ wf = "support"
    /\ pc = "END"
    /\ trace = Linear \o <<"ai_response">>

\* The fields a node reads with state[key].
ReadsOf(node) ==
    CASE node \in {"analyze_sentiment", "categorize"} -> {"message"}
      [] node = "assign_priority" -> {"sentiment", "category"}
      [] node \in {"check_kb", "ai_response"} -> {"category", "priority"}
      [] node = "automated" -> {"category"}
      [] node \in {"Router", "Retrieve_QnA", "Retrieve_Device", "Web_Search"} ->
            {"query"}
      [] node \in {"Relevance_Checker", "Augment"} -> {"query", "context"}
      [] node = "Generate" -> {"prompt"}
      [] OTHER -> {}

\* The fields the routing function of a node reads with state[key].
RoutingReadsOf(node) ==
    CASE node = "Router" -> {"source"}
      [] node = "Relevance_Checker" -> {"is_relevant"}
      [] node = "check_kb" -> {"priority"}
      [] OTHER -> {}

\* C18: on every path from the entry node, every field a node or routing
\* function reads without a default is in the state when it is read: the
\* caller supplied it (message, query) or a node executed earlier on the path
\* wrote it; no read fails.
C18_ReadsAreWritten ==
    /\ ReadsOf(pc) \subseteq DOMAIN state
    /\ trace # <<>> => RoutingReadsOf(Last(trace)) \subseteq DOMAIN state
    /\ pc = "FAILED" =>
          (wf = "rag" /\ (UnexpectedRouterAnswer \/ UnexpectedVerdictVisits # {}))

C18_Witness ==
    /\ wf = "rag"
    /\ pc = "Generate"
    /\ trace = <<"Router", "Retrieve_QnA", "Relevance_Checker", "Augment">>
    /\ "prompt" \in DOMAIN state

\* C19: the edge ai_response -> escalate is never taken: whenever ai_response
\* executes, priority is low or medium, requires_human is true and category
\* is billing or technical, so it sets escalate to false and the run ends;
\* escalate is reached only directly from check_kb.
C19_AiResponseNeverEscalates ==
    wf = "support" =>
        /\ (pc = "ai_response" \/ Ran("ai_response")) =>
              /\ state["priority"] \in {"low", "medium"}
              /\ state["requires_human"] = TRUE
              /\ state["category"] \in {"billing", "technical"}
        /\ Ran("ai_response") =>
              /\ state["escalate"] = FALSE
              /\ pc = "END"
              /\ Last(trace) = "ai_response"
        /\ \A i \in 1..Len(trace) :
              trace[i] = "escalate" => (i > 1 /\ trace[i - 1] = "check_kb")

C19_Witness ==
    /\ wf = "support"
    /\ Ran("ai_response")
    /\ pc = "END"
    /\ state["escalate"] = FALSE

\* C20: in every final state of the support-triage workflow response is
\* populated; ticket_id is set iff escalate is true iff the escalate node
\* ran; requires_human = false implies escalate = false, no ticket_id and the
\* response of the automated node (the "Auto-resolved" response of check_kb
\* is overwritten before END).
C20_FinalState ==
    (wf = "support" /\ pc = "END") =>
        /\ "response" \in DOMAIN state
        /\ ("ticket_id" \in DOMAIN state) = Get(state, "escalate", FALSE)
        /\ Get(state, "escalate", FALSE) = Ran("escalate")
        /\ ~state["requires_human"] =>
              /\ state["escalate"] = FALSE
              /\ "ticket_id" \notin DOMAIN state
              /\ Last(trace) = "automated"
              /\ state["response"] =
                    <<"Automated response for ", state["category"], " query">>

C20_Witness ==
    /\ wf = "support"
    /\ pc = "END"
    /\ state["requires_human"] = FALSE
    /\ Ran("check_kb")
    /\ state["response"] = <<"Automated response for ", "product", " query">>

\* =============================================== several invocations
\* One compiled workflow invoked several times in one process, each
\* invocation with its own State Record.  runs[1] runs alone, to its end;
\* then runs[2] and runs[3] run with their nodes interleaved in any order.
\* The decision function, the lookups and the search answer as functions of
\* their arguments (memo); the clock does not.

\* Messages the invocations are given.
SomeMessages == {TestMessage1, TestMessage2, TestMessage3, <<"Refund">>}

Entry(w) == IF w = "rag" THEN "Router" ELSE "analyze_sentiment"

Inputs(w) ==
    IF w = "rag" THEN {[k \in {"query"} |-> q] : q \in Queries}
    ELSE {("user_id" :> "U123") @@ ("message" :> m) @@ ("context" :> <<>>) :
            m \in SomeMessages}

Invocation(w, input) == [wf |-> w, pc |-> Entry(w), state |-> input, trace |-> <<>>]

Finished(r) == r.pc \in {"END", "FAILED"}

\* The call a node makes to a collaborator, with its arguments; <<>> when it
\* makes none.
CallOf(r) ==
    LET s == r.state
    IN  CASE r.pc = "Router" -> <<"get_llm_response", "decision_prompt", s["query"]>>
          [] r.pc = "Retrieve_QnA" -> <<"collection1.query", s["query"]>>
          [] r.pc = "Retrieve_Device" -> <<"collection2.query", s["query"]>>
          [] r.pc = "Web_Search" -> <<"search.run", s["query"]>>
          [] r.pc = "Relevance_Checker" ->
                <<"get_llm_response", "relevance_prompt", s["context"], s["query"]>>
          [] r.pc = "Generate" -> <<"get_llm_response">> \o s["prompt"]
          [] r.pc = "escalate" -> <<"datetime.now">>
          [] OTHER -> <<>>

\* What a collaborator may answer to the call of node n.
AnswersTo(n) ==
    CASE n = "Router" -> RouterAnswers
      [] n = "Retrieve_QnA" -> QnADocuments
      [] n = "Retrieve_Device" -> DeviceDocuments
      [] n = "Web_Search" -> SearchResults
      [] n = "Relevance_Checker" -> RelevanceAnswers
      [] n = "Generate" -> LlmAnswers
      [] n = "escalate" -> Timestamps
      [] OTHER -> {"no call"}

\* The fields node n reads with state[key].
NodeReads(n) ==
    CASE n \in {"analyze_sentiment", "categorize"} -> {"message"}
      [] n = "assign_priority" -> {"sentiment", "category"}
      [] n \in {"check_kb", "ai_response"} -> {"category", "priority"}
      [] n = "automated" -> {"category"}
      [] n = "escalate" -> {}
      [] n \in {"Router", "Retrieve_QnA", "Retrieve_Device", "Web_Search"} ->
            {"query"}
      [] n \in {"Relevance_Checker", "Augment"} -> {"query", "context"}
      [] n = "Generate" -> {"prompt"}

\* Invocation r after the execution of its node r.pc, whose call (if any)
\* was answered with a.
RunNode(r, a) ==
    LET s == r.state
        n == r.pc
        To(newState, next) ==
            [wf |-> r.wf, pc |-> next, state |-> newState,
             trace |-> Append(r.trace, n)]
    IN  IF ~Has(s, NodeReads(n)) THEN To(s, "FAILED")
        ELSE CASE n = "Router" ->
                    LET s1 == Merge(s, router(s, a))
                    IN  To(s1, ResolveNext(RouterEdges, route_decision(s1)))
               [] n = "Retrieve_QnA" ->
                    To(Merge(s, retrieve_context_q_n_a(s, a)), "Relevance_Checker")
               [] n = "Retrieve_Device" ->
                    To(Merge(s, retrieve_context_medical_device(s, a)),
                       "Relevance_Checker")
               [] n = "Web_Search" ->
                    To(Merge(s, web_search(s, a)), "Relevance_Checker")
               [] n = "Relevance_Checker" ->
                    LET s1 == Merge(s, check_context_relevance(s, a))
                        decision == relevance_decision(s1)
                    IN  To(AfterRouting(decision),
                           ResolveNext(RelevanceEdges, decision.label))
               [] n = "Augment" -> To(Merge(s, build_prompt(s)), "Generate")
               [] n = "Generate" -> To(Merge(s, call_llm(s, a)), "END")
               [] n = "analyze_sentiment" ->
                    To(Merge(s, analyze_sentiment(s)), "categorize")
               [] n = "categorize" ->
                    To(Merge(s, categorize_issue(s)), "assign_priority")
               [] n = "assign_priority" ->
                    To(Merge(s, assign_priority(s)), "check_kb")
               [] n = "check_kb" ->
                    LET s1 == Merge(s, check_knowledge_base(s))
                    IN  To(s1, ResolveNext(CheckKbEdges, should_auto_resolve(s1)))
               [] n = "ai_response" ->
                    LET s1 == Merge(s, generate_ai_response(s))
                    IN  To(s1, ResolveNext(AiResponseEdges, should_escalate(s1)))
               [] n = "escalate" -> To(Merge(s, escalate_to_human(s, a)), "END")
               [] n = "automated" ->
                    To(Merge(s, send_automated_response(s)), "END")

\* Invocation i executes its next node.
Invoke(i) ==
    /\ ~Finished(runs[i])
    /\ Len(runs[i].trace) < MaxSteps
    /\ LET call == CallOf(runs[i])
       IN  IF call # <<>> /\ call[1] # "datetime.now" /\ call \in DOMAIN memo
           THEN /\ runs' = [runs EXCEPT ![i] = RunNode(runs[i], memo[call])]
                /\ memo' = memo
           ELSE \E a \in AnswersTo(runs[i].pc) :
                  /\ runs' = [runs EXCEPT ![i] = RunNode(runs[i], a)]
                  /\ memo' = IF call = <<>> \/ call[1] = "datetime.now" THEN memo
                             ELSE (call :> a) @@ memo
    /\ UNCHANGED <<wf, pc, state, trace, heard>>

\* The invocation that runs alone.
RunAlone == Invoke(1)

\* The two invocations that run side by side, once the first has ended.
RunBeside == Finished(runs[1]) /\ \E i \in {2, 3} : Invoke(i)

\* runs[2] is given the input of runs[1]; runs[3] any input.
ManyInit ==
    /\ wf = "many"
    /\ pc = "END"
    /\ state = <<>>
    /\ trace = <<>>
    /\ heard = <<>>
    /\ memo = <<>>
    /\ \E w \in {"rag", "support"} :
         \E a \in Inputs(w), b \in Inputs(w) :
            runs = <<Invocation(w, a), Invocation(w, a), Invocation(w, b)>>

ManyNext == RunAlone \/ RunBeside

ManySpec == ManyInit /\ [][ManyNext]_vars

\* ------------------------------------------------------------- C11, C14
SameInput(i, j) ==
    /\ runs[i].wf = runs[j].wf
    /\ \A k \in IF runs[i].wf = "rag" THEN {"query"}
                ELSE {"user_id", "message", "context"} :
          /\ k \in DOMAIN runs[i].state
          /\ k \in DOMAIN runs[j].state
          /\ runs[i].state[k] = runs[j].state[k]

BothEnded(i, j) == runs[i].pc = "END" /\ runs[j].pc = "END"

\* The State Record without the reading of the clock that escalate puts
\* into ticket_id and response.
Undated(s) ==
    [k \in DOMAIN s |->
        IF k = "ticket_id" THEN <<s[k][1]>>
        ELSE IF k = "response" /\ "ticket_id" \in DOMAIN s
             THEN <<s[k][1], s["ticket_id"][1]>>
             ELSE s[k]]

\* The reading of the clock an invocation that ran escalate was given.
ClockOf(s) == IF "ticket_id" \in DOMAIN s THEN s["ticket_id"][2] ELSE "none"

\* C11 as stated: two invocations with the same input, the decision
\* function, the lookups and the search answering as functions of their
\* arguments, end with the same node-visit sequence and the same final state
\* in every field, response and ticket_id included.
C11_SameRunSameResult ==
    (SameInput(2, 3) /\ BothEnded(2, 3))
        => /\ runs[2].trace = runs[3].trace
           /\ runs[2].state = runs[3].state

\* C11, amended: two invocations with the same input, the decision
\* function, the lookups and the search answering as functions of their
\* arguments, end with the same node-visit sequence and the same final state
\* in every field, except that when they ran escalate their ticket_id and
\* response carry the time the clock gave each of them; invocations that did
\* not run escalate, or were given the same time, end in the same state.
C11_SameRunSameResultButClock ==
    (SameInput(2, 3) /\ BothEnded(2, 3))
        => /\ runs[2].trace = runs[3].trace
           /\ Undated(runs[2].state) = Undated(runs[3].state)
           /\ (ClockOf(runs[2].state) = ClockOf(runs[3].state)
                  => runs[2].state = runs[3].state)

\* Two invocations of the same message ended holding different tickets.
C11_Witness ==
    /\ SameInput(2, 3)
    /\ BothEnded(2, 3)
    /\ "escalate" \in Range(runs[2].trace)
    /\ runs[2].state["ticket_id"] # runs[3].state["ticket_id"]
    /\ Undated(runs[2].state) = Undated(runs[3].state)

\* C14: an invocation whose nodes run interleaved with those of another
\* invocation, each with its own State Record, reaches the node-visit
\* sequence, the iteration counter and the final state it reaches when it
\* runs alone with the same answers of the decision function, the lookups,
\* the search and the clock; and a node of one invocation leaves the record
\* of every other invocation as it was.
C14_Beside ==
    (Finished(runs[1]) /\ Finished(runs[2]))
        => /\ runs[2].trace = runs[1].trace
           /\ runs[2].pc = runs[1].pc
           /\ Get(runs[2].state, "iteration_count", 0)
                = Get(runs[1].state, "iteration_count", 0)
           /\ Undated(runs[2].state) = Undated(runs[1].state)
           /\ (ClockOf(runs[2].state) = ClockOf(runs[1].state)
                  => runs[2].state = runs[1].state)

C14_OwnRecord ==
    \A i \in DOMAIN runs :
        runs'[i] # runs[i] => \A j \in DOMAIN runs \ {i} : runs'[j] = runs[j]

C14_NoInfluence == [][C14_OwnRecord]_vars /\ [](C14_Beside)

\* An invocation ended beside another one that was given a different input
\* and had run some, but not all, of its nodes in between.
C14_Witness ==
    /\ ~SameInput(2, 3)
    /\ Finished(runs[1])
    /\ runs[2].pc = "END"
    /\ runs[2].trace = runs[1].trace
    /\ runs[3].trace # <<>>
    /\ ~Finished(runs[3])
    /\ \/ Get(runs[2].state, "iteration_count", 0) >= 2
       \/ Get(runs[3].state, "requires_human", FALSE)

====
